---------------------------- MODULE Spec2Model ----------------------------
(***************************************************************************)
(* A model of kync_rawkey: the C-ABI plugin of src/src/lib.rs (init,       *)
(* buf_len, crypto_item_ids, seal, open), its thread-local error object    *)
(* (src/src/misc.rs) and the capsule functions of src/src/crypto.rs        *)
(* (protect, recover).                                                     *)
(*                                                                         *)
(* The random source, the KDF and the AEAD cipher are external crates.     *)
(* They are modelled by small concrete stand-ins with the interface the    *)
(* code uses: a random draw fills a slice with one of a few patterns or    *)
(* fails, the KDF binds the derived key to (secret, salt) or fails, the    *)
(* AEAD is a keystream XOR followed by a 16-byte tag over key, nonce and   *)
(* ciphertext.  Every call is made with non-null buf, buf_written and      *)
(* key/capsule pointers (not_null! aborts the process otherwise).          *)
(***************************************************************************)
EXTENDS Integers, Sequences, FiniteSets, TLC

\* ------------------------------------------------------------ constants

SALT_LEN == 16
NONCE_LEN == 12
MAC_LEN == 16
OVERHEAD == SALT_LEN + NONCE_LEN + MAC_LEN
\* crypto.rs carries its own copy of the overhead
CRYPTO_OVERHEAD == 16 + 12 + 16
\* UID.len(), the length of the format identifier
UID_LEN == 56
\* the accepted user secret lengths, `1..=64`
MIN_SECRET_LEN == 1
MAX_SECRET_LEN == 64

\* ------------------------------------------------------------- bounds

\* payloads of 0..MaxPayloadLen bytes
MaxPayloadLen == 2
\* the random source draws one of NumDraws patterns
NumDraws == 2

\* ------------------------------------------------------------ usize
\* A usize is kept at its full 64-bit width as four 16-bit limbs, least
\* significant first, so that `input_len + OVERHEAD` can overflow.

USIZE_BITS == 64
LimbBase == 2 ^ 16
USIZE_LIMBS == USIZE_BITS \div 16

ToUsize(n) == [i \in 1..USIZE_LIMBS |->
                 IF i = 1 THEN n % LimbBase
                 ELSE IF i = 2 THEN n \div LimbBase ELSE 0]

IsSmall(u) == \A i \in 2..USIZE_LIMBS : u[i] = 0

\* the value of a usize that fits one limb
ToNat(u) == u[1]

USIZE_MAX == [i \in 1..USIZE_LIMBS |-> LimbBase - 1]

\* USIZE_MAX - k for a small k
MaxMinus(k) == [i \in 1..USIZE_LIMBS |->
                  IF i = 1 THEN LimbBase - 1 - k ELSE LimbBase - 1]

RECURSIVE AddLimbs(_, _, _, _)
AddLimbs(u, k, i, acc) ==
    IF i > USIZE_LIMBS THEN [sum |-> acc, carry |-> k]
    ELSE AddLimbs(u, (u[i] + k) \div LimbBase, i + 1,
                  Append(acc, (u[i] + k) % LimbBase))

\* u + k on 64 bits: the wrapped sum and whether it overflowed
UsizeAdd(u, k) ==
    LET r == AddLimbs(u, k, 1, <<>>)
    IN  [sum |-> r.sum, overflow |-> r.carry # 0]

\* u <= v on usize values
RECURSIVE LimbsLeq(_, _, _)
LimbsLeq(u, v, i) ==
    IF i = 0 THEN TRUE
    ELSE IF u[i] < v[i] THEN TRUE
    ELSE IF u[i] > v[i] THEN FALSE
    ELSE LimbsLeq(u, v, i - 1)

UsizeLeq(u, v) == LimbsLeq(u, v, USIZE_LIMBS)

\* ------------------------------------------------------------- bytes

Zeros(n) == [i \in 1..n |-> 0]

\* dst with src written at offset off (0-based), as copy_from_slice does
WriteAt(dst, off, src) ==
    [i \in 1..Len(dst) |->
        IF i > off /\ i <= off + Len(src) THEN src[i - off] ELSE dst[i]]

RECURSIVE XorBits(_, _, _)
XorBits(a, b, n) ==
    IF n = 0 THEN 0
    ELSE ((a + b) % 2) + 2 * XorBits(a \div 2, b \div 2, n - 1)

\* a XOR b on bytes
Xor(a, b) == XorBits(a, b, 8)

\* byte b with bit k flipped
FlipBit(b, k) == Xor(b, 2 ^ k)

RECURSIVE WeightedSum(_, _)
WeightedSum(s, i) ==
    IF i = 0 THEN 0 ELSE (2 * i + 1) * s[i] + WeightedSum(s, i - 1)

\* ------------------------------------------------- external primitives

\* OsRandom::secure_rng().random(buf): the r-th pattern the source may draw
RandomFill(n, r) == [i \in 1..n |-> (53 * r + 29 * i) % 256]

\* Blake2b::kdf().derive(&mut aead_key, user_secret, salt, b""): the derived
\* key is determined by, and determines, the pair (secret, salt)
Derive(user_secret, salt) == <<user_secret, salt>>

KeyNum(k) ==
    WeightedSum(k[1], Len(k[1])) + 7 * WeightedSum(k[2], Len(k[2])) + Len(k[1])

\* the i-th keystream byte under (key, nonce)
KeyStream(k, nonce, i) ==
    (KeyNum(k) + 3 * WeightedSum(nonce, Len(nonce)) + 11 * i) % 256

Crypt(data, k, nonce) ==
    [i \in 1..Len(data) |-> Xor(data[i], KeyStream(k, nonce, i))]

\* the MAC_LEN-byte tag over key, nonce and ciphertext (no associated data)
Tag(k, nonce, ct) ==
    LET m == k[1] \o k[2] \o nonce \o ct \o <<Len(k[1]), Len(ct)>>
        c == WeightedSum(m, Len(m))
    IN  [j \in 1..MAC_LEN |-> ((c \div (256 ^ ((j - 1) % 3))) + j) % 256]

\* ChachaPolyIetf::aead_cipher().seal_to(buf, plaintext, b"", key, nonce):
\* ciphertext followed by the tag
SealTo(plaintext, k, nonce) ==
    LET ct == Crypt(plaintext, k, nonce) IN ct \o Tag(k, nonce, ct)

\* ChachaPolyIetf::aead_cipher().open_to(buf, ciphertext, b"", key, nonce):
\* the tag is verified, then the data decrypted
OpenTo(ciphertext, k, nonce) ==
    LET n   == Len(ciphertext) - MAC_LEN
        ct  == SubSeq(ciphertext, 1, n)
        tag == SubSeq(ciphertext, n + 1, Len(ciphertext))
    IN  IF tag = Tag(k, nonce, ct)
        THEN [ok |-> TRUE, plaintext |-> Crypt(ct, k, nonce)]
        ELSE [ok |-> FALSE, plaintext |-> <<>>]

\* ------------------------------------------------- error objects (misc.rs)

\* the error object before any error was set
NoError == [error_type |-> "", description |-> "", info |-> 0]

\* error_t::set(t, i): type and info set, description cleared
set(t, i) == [error_type |-> t, description |-> "", info |-> i]

eperm(required_authentication) ==
    set("EPERM", IF required_authentication THEN 1 ELSE 0)
eilseq == set("EILSEQ", 0)
enotfound == set("ENOTFOUND", 0)
einval(index) == set("EINVAL", index)

\* ErrorExt::set_desc
set_desc(e, d) == [e EXCEPT !.description = d]

\* THREAD_LOCAL_ERR is thread_local!: setting the error of thread t writes
\* the object of thread t only
StoreErrShared(errs, t, e) == [u \in DOMAIN errs |-> e]
StoreErr(errs, t, e) == [errs EXCEPT ![t] = e]

\* ------------------------------------------------- lib.rs, the pure parts

FnNames == {"capsule_format_uid", "crypto_item_ids", "seal", "open", "other"}

\* buf_len: the length computed for fn_name and input_len, and whether the
\* addition overflowed the usize
BufLenOf(fn_name, input_len) ==
    CASE fn_name = "capsule_format_uid" ->
            [len |-> ToUsize(UID_LEN), overflow |-> FALSE]
      [] fn_name = "crypto_item_ids" -> [len |-> ToUsize(0), overflow |-> FALSE]
      [] fn_name = "seal" ->
            LET r == UsizeAdd(input_len, OVERHEAD)
            IN  [len |-> r.sum, overflow |-> r.overflow]
      [] fn_name = "open" -> [len |-> input_len, overflow |-> FALSE]
      [] OTHER -> [len |-> ToUsize(0), overflow |-> FALSE]

\* seal and open: `1..=64 => ...`
SecretLenOkFrom0(user_secret_len) == user_secret_len \in 0..MAX_SECRET_LEN
SecretLenOk(user_secret_len) ==
    user_secret_len \in MIN_SECRET_LEN..MAX_SECRET_LEN

\* seal: `match crypto_item_id.is_null()`
CryptoItemAny(crypto_item_id_null) == TRUE
CryptoItemOk(crypto_item_id_null) == crypto_item_id_null

\* open: `match capsule_len >= OVERHEAD`
CapsuleLenOkStrict(capsule_len) == capsule_len > OVERHEAD
CapsuleLenOk(capsule_len) == capsule_len >= OVERHEAD

\* seal: `*buf_written = key_len + OVERHEAD`
SealWrittenNoTag(key_len) == key_len + SALT_LEN + NONCE_LEN
SealWritten(key_len) == key_len + OVERHEAD

\* open: `*buf_written = capsule_len - OVERHEAD`
OpenWritten(capsule_len) == capsule_len - OVERHEAD

\* open: the salt, nonce and ciphertext the capsule is split into
SplitCapsuleSwapped(capsule) ==
    [salt       |-> SubSeq(capsule, NONCE_LEN + 1, NONCE_LEN + SALT_LEN),
     nonce      |-> SubSeq(capsule, 1, NONCE_LEN),
     ciphertext |-> SubSeq(capsule, SALT_LEN + NONCE_LEN + 1, Len(capsule))]
SplitCapsule(capsule) ==
    [salt       |-> SubSeq(capsule, 1, SALT_LEN),
     nonce      |-> SubSeq(capsule, SALT_LEN + 1, SALT_LEN + NONCE_LEN),
     ciphertext |-> SubSeq(capsule, SALT_LEN + NONCE_LEN + 1, Len(capsule))]

\* open, the Err arm of open_to: the error handed to the caller, whatever
\* the primitive's error e says
OpenFailureEperm(e) == set_desc(eperm(TRUE), "Invalid capsule")
OpenFailure(e) == set_desc(eilseq, "Invalid capsule")

\* ------------------------------------------------------------- state

VARIABLES
    threads,          \* the threads of the host process
    LOG_LEVEL,        \* static LOG_LEVEL: AtomicU8
    stderr,           \* per thread: the lines its current call wrote to stderr
    stored,           \* the capsule the host kept from a successful seal
    pc,               \* per thread: where its current call stands
    call,             \* per thread: the arguments of its current call
    buf,              \* per thread: the caller's output buffer
    buf_written,      \* per thread: the caller's *buf_written
    THREAD_LOCAL_ERR, \* per thread: the thread-local error_t
    ret,              \* per thread: the value the call returned
    aead_key,         \* per thread: the local aead_key
    fault,            \* per thread: the primitive that failed in the call
    len_out           \* per thread: the caller's *buf_len of a size query

vars == <<threads, LOG_LEVEL, stderr, stored, pc, call, buf, buf_written,
          THREAD_LOCAL_ERR, ret, aead_key, fault, len_out>>

\* what the caller's *buf_written holds before a call writes it
UNSET == 0 - 1

NoKey == <<<<>>, <<>>>>

NoCall == [op |-> "none", key |-> <<>>, crypto_item_id_null |-> TRUE,
           crypto_item_id |-> "", user_secret_null |-> TRUE,
           user_secret |-> <<>>, capsule |-> <<>>, how |-> "",
           origin_secret |-> <<>>, origin_payload |-> <<>>,
           fn_name |-> "", input_len |-> ToUsize(0)]

NoStored == [full |-> FALSE, capsule |-> <<>>, secret |-> <<>>,
             payload |-> <<>>]

\* ------------------------------------------------------------- inputs
\* One thread explores the wide input sets; two threads interleave over
\* narrow ones.

Wide == Cardinality(threads) = 1

Payload(n) == [i \in 1..n |-> (37 * i + 5) % 256]
Payloads == IF Wide THEN {Payload(n) : n \in 0..MaxPayloadLen}
            ELSE {Payload(1)}

Secret(n, v) == [i \in 1..n |-> (16 * v + i) % 256]
ValidSecrets ==
    {Secret(MIN_SECRET_LEN, 1), Secret(MIN_SECRET_LEN, 2)}
        \cup (IF Wide THEN {Secret(MAX_SECRET_LEN, 1)} ELSE {})
BadSecrets ==
    IF Wide THEN {Secret(MIN_SECRET_LEN - 1, 1), Secret(MAX_SECRET_LEN + 1, 1)}
    ELSE {}

Ptr(b) == [null |-> FALSE, bytes |-> b]
NullPtr == [null |-> TRUE, bytes |-> <<>>]

\* a user secret argument: a null pointer, or a pointer to some bytes
SecretArgs == {NullPtr} \cup {Ptr(b) : b \in ValidSecrets \cup BadSecrets}

\* the secrets capsules are sealed under
SealSecrets == IF Wide THEN ValidSecrets ELSE {Secret(MIN_SECRET_LEN, 1)}
SealSecretArgs ==
    IF Wide THEN SecretArgs ELSE {NullPtr} \cup {Ptr(b) : b \in SealSecrets}

ItemIds == {"Blake2b-ChachaPolyIetf", "Argon2id-ChachaPolyIetf"}
\* a crypto item id argument: a null pointer, or a pointer to a name
ItemArgs ==
    {[null |-> TRUE, id |-> ""]}
        \cup (IF Wide THEN {[null |-> FALSE, id |-> n] : n \in ItemIds} ELSE {})

Draws == IF Wide THEN 1..NumDraws ELSE {1}

FlipAt(c, p, k) == [c EXCEPT ![p] = FlipBit(c[p], k)]
\* the single-bit flips tried on a capsule: every bit of every byte, or one
\* bit of every byte
FlipSites(c, every_bit) ==
    IF ~Wide THEN {<<Len(c), 7>>}
    ELSE IF every_bit THEN (1..Len(c)) \X (0..7)
    ELSE {<<p, p % 8>> : p \in 1..Len(c)}

\* the capsules handed to open or recover, each with the secret presented:
\* the stored capsule as it is, with one bit flipped, or cut short; and
\* capsules that no seal produced
CapsuleArgs(every_bit) ==
    (IF stored.full
     THEN {[capsule |-> stored.capsule, how |-> "intact", secret |-> a] :
              a \in SecretArgs}
          \cup {[capsule |-> FlipAt(stored.capsule, s[1], s[2]),
                 how |-> "flip", secret |-> Ptr(stored.secret)] :
                  s \in FlipSites(stored.capsule, every_bit)}
          \cup (IF Wide
                THEN {[capsule |-> SubSeq(stored.capsule, 1, OVERHEAD - 1),
                       how |-> "cut", secret |-> a] : a \in SecretArgs}
                ELSE {})
     ELSE {})
    \cup {[capsule |-> Zeros(n), how |-> "foreign",
           secret |-> Ptr(Secret(MIN_SECRET_LEN, 1))] :
            n \in (IF Wide THEN {0, OVERHEAD - 1, OVERHEAD}
                   ELSE {OVERHEAD - 1})}

\* the input lengths asked of the size query
InputLens ==
    {ToUsize(1), USIZE_MAX}
        \cup (IF Wide
              THEN {ToUsize(0), ToUsize(LimbBase - 1), MaxMinus(OVERHEAD),
                    MaxMinus(OVERHEAD - 1)}
              ELSE {})

\* the size queries: the input length matters to "seal" and "open" only
QueryArgs ==
    IF Wide
    THEN ({"seal", "open"} \X InputLens)
            \cup ((FnNames \ {"seal", "open"}) \X {ToUsize(1)})
    ELSE {"seal"} \X InputLens

\* ------------------------------------------------------------ helpers

\* process::abort() was called: nothing runs any more
Aborted == \E t \in threads : pc[t] = "aborted"

\* thread t may make a call: it has none under way
Startable(t) == ~Aborted /\ pc[t] = "idle"

\* the caller's view before the call: fresh arguments, locals and outputs
Enter(t, c) ==
    /\ call' = [call EXCEPT ![t] = c]
    /\ aead_key' = [aead_key EXCEPT ![t] = NoKey]
    /\ fault' = [fault EXCEPT ![t] = ""]
    /\ buf_written' = [buf_written EXCEPT ![t] = UNSET]
    /\ stderr' = [stderr EXCEPT ![t] = {}]
    /\ IF c.op = "buf_len" THEN TRUE
       ELSE len_out' = [len_out EXCEPT ![t] = ToUsize(0)]

\* the buffer the host allocates from the size query before the call
HostBuf(fn_name, input_len) ==
    Zeros(ToNat(BufLenOf(fn_name, ToUsize(input_len)).len))

\* `return error_t::...().set_desc(...)`
ReturnErr(t, e) ==
    /\ THREAD_LOCAL_ERR' = StoreErr(THREAD_LOCAL_ERR, t, e)
    /\ ret' = [ret EXCEPT ![t] = "ERR"]
    /\ pc' = [pc EXCEPT ![t] = "done"]

\* ensure!(...) failed: the line is logged if LOG_LEVEL > 0, then the
\* process aborts
EnsureFailed(t, cause) ==
    /\ stderr' = IF LOG_LEVEL > 0
                 THEN [stderr EXCEPT ![t] = @ \cup {"Assertion failed"}]
                 ELSE stderr
    /\ pc' = [pc EXCEPT ![t] = "aborted"]
    /\ fault' = [fault EXCEPT ![t] = cause]

\* ------------------------------------------------------------ lib.rs

\* init: the host sets the log level, at any time
init(log_level) ==
    /\ ~Aborted
    /\ LOG_LEVEL' = log_level
    /\ UNCHANGED <<threads, stderr, stored, pc, call, buf, buf_written,
                   THREAD_LOCAL_ERR, ret, aead_key, fault, len_out>>

\* buf_len: `input_len + OVERHEAD` wraps where overflow checks are off and
\* panics, which ends the process, where they are on
buf_len(t, fn_name, input_len) ==
    /\ Startable(t)
    /\ Enter(t, [NoCall EXCEPT !.op = "buf_len", !.fn_name = fn_name,
                               !.input_len = input_len])
    /\ LET r == BufLenOf(fn_name, input_len)
       IN  \/ /\ r.overflow
              /\ pc' = [pc EXCEPT ![t] = "aborted"]
              /\ UNCHANGED len_out
           \/ /\ pc' = [pc EXCEPT ![t] = "done"]
              /\ len_out' = [len_out EXCEPT ![t] = r.len]
    /\ ret' = [ret EXCEPT ![t] = "none"]
    /\ buf' = [buf EXCEPT ![t] = <<>>]
    /\ UNCHANGED <<threads, LOG_LEVEL, stored, THREAD_LOCAL_ERR>>

crypto_item_ids(t) ==
    /\ Startable(t)
    /\ Enter(t, [NoCall EXCEPT !.op = "crypto_item_ids"])
    /\ buf' = [buf EXCEPT ![t] = HostBuf("crypto_item_ids", 0)]
    /\ ReturnErr(t, set_desc(enotfound,
                    "This plugin does not support multiple crypto items"))
    /\ UNCHANGED <<threads, LOG_LEVEL, stored>>

\* seal, lines 106-125: the argument checks
seal(t, key, item, secret) ==
    /\ Startable(t)
    /\ ~stored.full
    /\ Enter(t, [NoCall EXCEPT !.op = "seal", !.key = key,
                    !.crypto_item_id_null = item.null,
                    !.crypto_item_id = item.id,
                    !.user_secret_null = secret.null,
                    !.user_secret = secret.bytes])
    /\ buf' = [buf EXCEPT ![t] = HostBuf("seal", Len(key))]
    /\ IF ~CryptoItemOk(item.null)
       THEN ReturnErr(t, set_desc(einval(4), "Invalid crypto item"))
       ELSE IF secret.null
       THEN ReturnErr(t, set_desc(eperm(TRUE), "Missing user secret"))
       ELSE IF ~SecretLenOk(Len(secret.bytes))
       THEN ReturnErr(t, set_desc(einval(6),
                                  "Unsupported user secret length"))
       ELSE /\ pc' = [pc EXCEPT ![t] = "seal_salt"]
            /\ ret' = [ret EXCEPT ![t] = "none"]
            /\ UNCHANGED THREAD_LOCAL_ERR
    /\ UNCHANGED <<threads, LOG_LEVEL, stored>>

\* seal, lines 129-130: the salt is drawn into buf[0..16]
seal_salt(t) ==
    /\ ~Aborted
    /\ pc[t] = "seal_salt"
    /\ \/ /\ \E r \in Draws :
                buf' = [buf EXCEPT ![t] =
                          WriteAt(buf[t], 0, RandomFill(SALT_LEN, r))]
          /\ pc' = [pc EXCEPT ![t] = "seal_nonce"]
          /\ UNCHANGED <<stderr, fault>>
       \/ /\ EnsureFailed(t, "random")
          /\ UNCHANGED buf
    /\ UNCHANGED <<threads, LOG_LEVEL, stored, call, buf_written,
                   THREAD_LOCAL_ERR, ret, aead_key, len_out>>

\* seal, lines 132-133: the nonce is drawn into buf[16..28]
seal_nonce(t) ==
    /\ ~Aborted
    /\ pc[t] = "seal_nonce"
    /\ \/ /\ \E r \in Draws :
                buf' = [buf EXCEPT ![t] =
                          WriteAt(buf[t], SALT_LEN, RandomFill(NONCE_LEN, r))]
          /\ pc' = [pc EXCEPT ![t] = "seal_kdf"]
          /\ UNCHANGED <<stderr, fault>>
       \/ /\ EnsureFailed(t, "random")
          /\ UNCHANGED buf
    /\ UNCHANGED <<threads, LOG_LEVEL, stored, call, buf_written,
                   THREAD_LOCAL_ERR, ret, aead_key, len_out>>

\* seal, lines 135-136: the key is derived from the secret and the salt in buf
seal_kdf(t) ==
    /\ ~Aborted
    /\ pc[t] = "seal_kdf"
    /\ \/ /\ aead_key' = [aead_key EXCEPT ![t] =
                Derive(call[t].user_secret, SubSeq(buf[t], 1, SALT_LEN))]
          /\ pc' = [pc EXCEPT ![t] = "seal_aead"]
          /\ UNCHANGED <<stderr, fault>>
       \/ /\ EnsureFailed(t, "kdf")
          /\ UNCHANGED aead_key
    /\ UNCHANGED <<threads, LOG_LEVEL, stored, call, buf, buf_written,
                   THREAD_LOCAL_ERR, ret, len_out>>

\* seal, lines 140-142: the key is sealed into the rest of buf under the nonce
\* in buf
seal_aead(t) ==
    /\ ~Aborted
    /\ pc[t] = "seal_aead"
    /\ \/ /\ buf' = [buf EXCEPT ![t] =
                WriteAt(buf[t], SALT_LEN + NONCE_LEN,
                        SealTo(call[t].key, aead_key[t],
                               SubSeq(buf[t], SALT_LEN + 1,
                                      SALT_LEN + NONCE_LEN)))]
          /\ buf_written' = [buf_written EXCEPT ![t] =
                SealWritten(Len(call[t].key))]
          /\ ret' = [ret EXCEPT ![t] = "NULL"]
          /\ pc' = [pc EXCEPT ![t] = "done"]
          /\ UNCHANGED <<stderr, fault>>
       \/ /\ EnsureFailed(t, "seal")
          /\ UNCHANGED <<buf, buf_written, ret>>
    /\ UNCHANGED <<threads, LOG_LEVEL, stored, call, THREAD_LOCAL_ERR,
                   aead_key, len_out>>

\* open, lines 159-176: the argument checks
open(t, arg) ==
    /\ Startable(t)
    /\ Enter(t, [NoCall EXCEPT !.op = "open", !.capsule = arg.capsule,
                    !.how = arg.how,
                    !.user_secret_null = arg.secret.null,
                    !.user_secret = arg.secret.bytes,
                    !.origin_secret = stored.secret,
                    !.origin_payload = stored.payload])
    /\ buf' = [buf EXCEPT ![t] = HostBuf("open", Len(arg.capsule))]
    /\ IF ~CapsuleLenOk(Len(arg.capsule))
       THEN ReturnErr(t, set_desc(eilseq, "Truncated capsule"))
       ELSE IF arg.secret.null
       THEN ReturnErr(t, set_desc(eperm(TRUE), "Missing user secret"))
       ELSE IF ~SecretLenOk(Len(arg.secret.bytes))
       THEN ReturnErr(t, set_desc(einval(6),
                                  "Unsupported user secret length"))
       ELSE /\ pc' = [pc EXCEPT ![t] = "open_kdf"]
            /\ ret' = [ret EXCEPT ![t] = "none"]
            /\ UNCHANGED THREAD_LOCAL_ERR
    /\ UNCHANGED <<threads, LOG_LEVEL, stored>>

\* open, lines 180-184: the key is derived from the secret and the capsule's
\* salt
open_kdf(t) ==
    /\ ~Aborted
    /\ pc[t] = "open_kdf"
    /\ \/ /\ aead_key' = [aead_key EXCEPT ![t] =
                Derive(call[t].user_secret, SplitCapsule(call[t].capsule).salt)]
          /\ pc' = [pc EXCEPT ![t] = "open_aead"]
          /\ UNCHANGED <<stderr, fault>>
       \/ /\ EnsureFailed(t, "kdf")
          /\ UNCHANGED aead_key
    /\ UNCHANGED <<threads, LOG_LEVEL, stored, call, buf, buf_written,
                   THREAD_LOCAL_ERR, ret, len_out>>

\* open, lines 188-197.  open_to is handed the caller's buffer as its working
\* buffer; whether the primitive stages the ciphertext there before it
\* verifies the tag is not fixed by this repository, so both are possible.
open_aead(t) ==
    /\ ~Aborted
    /\ pc[t] = "open_aead"
    /\ \E staged \in BOOLEAN :
         LET c    == SplitCapsule(call[t].capsule)
             r    == OpenTo(c.ciphertext, aead_key[t], c.nonce)
             work == IF staged THEN WriteAt(buf[t], 0, c.ciphertext)
                     ELSE buf[t]
         IN  IF r.ok
             THEN /\ buf' = [buf EXCEPT ![t] = WriteAt(work, 0, r.plaintext)]
                  /\ buf_written' = [buf_written EXCEPT ![t] =
                        OpenWritten(Len(call[t].capsule))]
                  /\ ret' = [ret EXCEPT ![t] = "NULL"]
                  /\ pc' = [pc EXCEPT ![t] = "done"]
                  /\ UNCHANGED <<stderr, THREAD_LOCAL_ERR>>
             ELSE /\ buf' = [buf EXCEPT ![t] = work]
                  /\ stderr' = [stderr EXCEPT ![t] = @ \cup {"InvalidData"}]
                  /\ ReturnErr(t, OpenFailure("InvalidData"))
                  /\ UNCHANGED buf_written
    /\ UNCHANGED <<threads, LOG_LEVEL, stored, call, aead_key, fault, len_out>>

\* ------------------------------------------------------------ crypto.rs
\* protect and recover return a Result: ret is "Ok" or the error constant,
\* buf the returned vector.  (log_map_err also logs the primitive's error.)

protect(t, key, data) ==
    /\ Startable(t)
    /\ ~stored.full
    /\ Enter(t, [NoCall EXCEPT !.op = "protect", !.key = data,
                    !.user_secret_null = FALSE, !.user_secret = key])
    /\ \/ /\ ret' = [ret EXCEPT ![t] = "ERR_OSRANDOM"]
          /\ buf' = [buf EXCEPT ![t] = <<>>]
       \/ /\ ret' = [ret EXCEPT ![t] = "ERR_KDF"]
          /\ buf' = [buf EXCEPT ![t] = <<>>]
       \/ /\ ret' = [ret EXCEPT ![t] = "ERR_SEAL"]
          /\ buf' = [buf EXCEPT ![t] = <<>>]
       \/ \E r1 \in Draws, r2 \in Draws :
            LET salt  == RandomFill(16, r1)
                nonce == RandomFill(12, r2)
                k     == Derive(key, salt)
                capsule == WriteAt(WriteAt(WriteAt(
                              Zeros(Len(data) + CRYPTO_OVERHEAD), 0, salt),
                              16, nonce),
                              16 + 12, SealTo(data, k, nonce))
            IN  /\ ret' = [ret EXCEPT ![t] = "Ok"]
                /\ buf' = [buf EXCEPT ![t] = capsule]
    /\ pc' = [pc EXCEPT ![t] = "done"]
    /\ UNCHANGED <<threads, LOG_LEVEL, stored, THREAD_LOCAL_ERR>>

recover(t, arg) ==
    /\ Startable(t)
    /\ ~arg.secret.null
    /\ SecretLenOk(Len(arg.secret.bytes))
    /\ Enter(t, [NoCall EXCEPT !.op = "recover", !.capsule = arg.capsule,
                    !.how = arg.how,
                    !.user_secret_null = FALSE,
                    !.user_secret = arg.secret.bytes,
                    !.origin_secret = stored.secret,
                    !.origin_payload = stored.payload])
    /\ IF Len(arg.capsule) < CRYPTO_OVERHEAD
       THEN /\ ret' = [ret EXCEPT ![t] = "ERR_TRUNCATED"]
            /\ buf' = [buf EXCEPT ![t] = <<>>]
       ELSE \/ /\ ret' = [ret EXCEPT ![t] = "ERR_KDF"]
               /\ buf' = [buf EXCEPT ![t] = <<>>]
            \/ LET salt  == SubSeq(arg.capsule, 1, 16)
                   nonce == SubSeq(arg.capsule, 16 + 1, 16 + 12)
                   data  == SubSeq(arg.capsule, 16 + 12 + 1, Len(arg.capsule))
                   r     == OpenTo(data, Derive(arg.secret.bytes, salt), nonce)
               IN  IF r.ok
                   THEN /\ ret' = [ret EXCEPT ![t] = "Ok"]
                        /\ buf' = [buf EXCEPT ![t] = r.plaintext]
                   ELSE /\ ret' = [ret EXCEPT ![t] = "ERR_OPEN"]
                        /\ buf' = [buf EXCEPT ![t] = <<>>]
    /\ pc' = [pc EXCEPT ![t] = "done"]
    /\ UNCHANGED <<threads, LOG_LEVEL, stored, THREAD_LOCAL_ERR>>

\* ------------------------------------------------------------ the host
\* tests/test.rs, rawkey_seal: the host truncates the buffer to the written
\* length and keeps the capsule, to open it later.  The host seals until it
\* has kept one capsule (seal and protect are not started after that).

host_keep(t) ==
    /\ ~Aborted
    /\ pc[t] = "done"
    /\ \/ /\ call[t].op = "seal"
          /\ ret[t] = "NULL"
          /\ stored' = [full |-> TRUE,
                        capsule |-> SubSeq(buf[t], 1, buf_written[t]),
                        secret |-> call[t].user_secret,
                        payload |-> call[t].key]
       \/ /\ call[t].op = "protect"
          /\ ret[t] = "Ok"
          /\ stored' = [full |-> TRUE, capsule |-> buf[t],
                        secret |-> call[t].user_secret,
                        payload |-> call[t].key]
    /\ UNCHANGED <<threads, LOG_LEVEL, stderr, pc, call, buf, buf_written,
                   THREAD_LOCAL_ERR, ret, aead_key, fault, len_out>>

\* the host drops the buffers of a finished call; the thread-local error
\* object stays as the call left it
host_release(t) ==
    /\ ~Aborted
    /\ pc[t] = "done"
    /\ pc' = [pc EXCEPT ![t] = "idle"]
    /\ call' = [call EXCEPT ![t] = NoCall]
    /\ buf' = [buf EXCEPT ![t] = <<>>]
    /\ buf_written' = [buf_written EXCEPT ![t] = UNSET]
    /\ ret' = [ret EXCEPT ![t] = "none"]
    /\ aead_key' = [aead_key EXCEPT ![t] = NoKey]
    /\ fault' = [fault EXCEPT ![t] = ""]
    /\ len_out' = [len_out EXCEPT ![t] = ToUsize(0)]
    /\ stderr' = [stderr EXCEPT ![t] = {}]
    /\ UNCHANGED <<threads, LOG_LEVEL, stored, THREAD_LOCAL_ERR>>

\* ------------------------------------------------------ specifications

InitOf(ts) ==
    /\ threads = ts
    /\ LOG_LEVEL = 0
    /\ stderr = [t \in ts |-> {}]
    /\ stored = NoStored
    /\ pc = [t \in ts |-> "idle"]
    /\ call = [t \in ts |-> NoCall]
    /\ buf = [t \in ts |-> <<>>]
    /\ buf_written = [t \in ts |-> UNSET]
    /\ THREAD_LOCAL_ERR = [t \in ts |-> NoError]
    /\ ret = [t \in ts |-> "none"]
    /\ aead_key = [t \in ts |-> NoKey]
    /\ fault = [t \in ts |-> ""]
    /\ len_out = [t \in ts |-> ToUsize(0)]

Init == InitOf({1})

InitThreads == InitOf({1, 2})

Next ==
    \/ \E l \in 0..1 : init(l)
    \/ \E t \in threads :
          Startable(t) /\ \E q \in QueryArgs : buf_len(t, q[1], q[2])
    \/ \E t \in threads : crypto_item_ids(t)
    \/ \E t \in threads :
          Startable(t) /\ \E k \in Payloads, i \in ItemArgs,
                             s \in SealSecretArgs : seal(t, k, i, s)
    \/ \E t \in threads : seal_salt(t)
    \/ \E t \in threads : seal_nonce(t)
    \/ \E t \in threads : seal_kdf(t)
    \/ \E t \in threads : seal_aead(t)
    \/ \E t \in threads :
          Startable(t) /\ \E a \in CapsuleArgs(TRUE) : open(t, a)
    \/ \E t \in threads : open_kdf(t)
    \/ \E t \in threads : open_aead(t)
    \/ \E t \in threads :
          Startable(t) /\ \E k \in SealSecrets, d \in Payloads :
                             protect(t, k, d)
    \/ \E t \in threads :
          Startable(t) /\ \E a \in CapsuleArgs(FALSE) : recover(t, a)
    \/ \E t \in threads : host_keep(t)
    \/ \E t \in threads : host_release(t)

\* one thread, the wide inputs
Spec == Init /\ [][Next]_vars

\* two threads, interleaved step by step
SpecThreads == InitThreads /\ [][Next]_vars

\* -------------------------------------------------------------- claims

\* thread t's call of op has returned
Done(t, op) == pc[t] = "done" /\ call[t].op = op

\* the bytes of the output buffer the call reported written
Written(t) == SubSeq(buf[t], 1, buf_written[t])

\* the call's user secret is present and of an accepted length
SecretGiven(t) ==
    /\ ~call[t].user_secret_null
    /\ Len(call[t].user_secret) >= 1
    /\ Len(call[t].user_secret) <= 64

\* the call returned an error of this type, description and info
Failed(t, type, desc, info) ==
    /\ ret[t] = "ERR"
    /\ THREAD_LOCAL_ERR[t] =
          [error_type |-> type, description |-> desc, info |-> info]

\* the capsule is a stored capsule as sealed, and the secret presented is the
\* secret it was sealed under
SameSecretIntact(t) ==
    /\ call[t].how = "intact"
    /\ ~call[t].user_secret_null
    /\ call[t].user_secret = call[t].origin_secret

\* C1: round trip.  Whenever open returns for a capsule that a successful seal
\* produced (whatever salt and nonce were drawn), presented with the secret
\* it was sealed under, it returns success and exactly the sealed payload,
\* same bytes and same length; so does recover, unless the KDF faults.  (A
\* KDF fault inside open aborts the process: nothing is returned.)
C1_RoundTrip ==
    \A t \in threads :
        /\ (Done(t, "open") /\ SameSecretIntact(t))
              => /\ ret[t] = "NULL"
                 /\ buf_written[t] = Len(call[t].origin_payload)
                 /\ Written(t) = call[t].origin_payload
        /\ (Done(t, "recover") /\ SameSecretIntact(t) /\ ret[t] # "ERR_KDF")
              => /\ ret[t] = "Ok"
                 /\ buf[t] = call[t].origin_payload

\* a 64-byte secret opened its capsule and got the longest payload back
C1_Witness ==
    \E t \in threads :
        /\ Done(t, "open") /\ SameSecretIntact(t)
        /\ Len(call[t].user_secret) = 64
        /\ Len(call[t].origin_payload) = MaxPayloadLen
        /\ ret[t] = "NULL"
        /\ Written(t) = call[t].origin_payload

\* the capsule c of an n-byte payload under secret s: salt at 0, nonce at 16,
\* n bytes of ciphertext at 28, tag at 28 + n; the key derived from the
\* stored salt, the data sealed under the stored nonce
WellFormed(c, n, s, payload) ==
    LET salt  == SubSeq(c, 1, 16)
        nonce == SubSeq(c, 17, 28)
        ct    == SubSeq(c, 29, 28 + n)
        tag   == SubSeq(c, 29 + n, 44 + n)
        k     == Derive(s, salt)
    IN  /\ Len(c) = n + 44
        /\ \E r \in Draws : salt = RandomFill(16, r)
        /\ \E r \in Draws : nonce = RandomFill(12, r)
        /\ ct = Crypt(payload, k, nonce)
        /\ tag = Tag(k, nonce, ct)

\* C2: length and layout.  Every successful seal of an n-byte payload reports
\* n + 44 bytes written, laid out as salt[16], nonce[12], ciphertext[n],
\* tag[16]; the key the call derived is the key of the stored salt, and the
\* data was sealed under the stored nonce.  protect returns the same layout.
C2_LengthAndLayout ==
    \A t \in threads :
        /\ (Done(t, "seal") /\ ret[t] = "NULL")
              => /\ buf_written[t] = Len(call[t].key) + 44
                 /\ WellFormed(Written(t), Len(call[t].key),
                               call[t].user_secret, call[t].key)
                 /\ aead_key[t] =
                       Derive(call[t].user_secret, SubSeq(Written(t), 1, 16))
        /\ (Done(t, "protect") /\ ret[t] = "Ok")
              => WellFormed(buf[t], Len(call[t].key), call[t].user_secret,
                            call[t].key)

\* a seal of the longest payload succeeded
C2_Witness ==
    \E t \in threads :
        /\ Done(t, "seal") /\ ret[t] = "NULL"
        /\ Len(call[t].key) = MaxPayloadLen
        /\ buf_written[t] = MaxPayloadLen + 44

\* C3: truncation boundary.  For a capsule shorter than 44 bytes open fails
\* at once with the truncated-capsule error: no key is derived, nothing is
\* written.  For a capsule of 44 bytes or more open never reports a truncated
\* capsule, and, given a user secret of an accepted length, goes on to the
\* key derivation and the AEAD verification, whose verdict it returns.
\* recover reports a truncated capsule exactly below 44 bytes.
C3_TruncationBoundary ==
    \A t \in threads :
        /\ (call[t].op = "open" /\ Len(call[t].capsule) < 44)
              => /\ pc[t] = "done"
                 /\ Failed(t, "EILSEQ", "Truncated capsule", 0)
                 /\ aead_key[t] = NoKey
                 /\ buf_written[t] = UNSET
                 /\ stderr[t] = {}
        /\ (call[t].op = "open" /\ Len(call[t].capsule) >= 44)
              => /\ ~Failed(t, "EILSEQ", "Truncated capsule", 0)
                 /\ SecretGiven(t) =>
                      /\ pc[t] \in {"open_kdf", "open_aead", "done", "aborted"}
                      /\ pc[t] \in {"open_aead", "done"} =>
                            aead_key[t] =
                               Derive(call[t].user_secret,
                                      SubSeq(call[t].capsule, 1, 16))
                      /\ pc[t] = "done" =>
                            \/ ret[t] = "NULL"
                            \/ Failed(t, "EILSEQ", "Invalid capsule", 0)
        /\ Done(t, "recover")
              => (ret[t] = "ERR_TRUNCATED" <=> Len(call[t].capsule) < 44)

\* a capsule of exactly 44 bytes (an empty payload) was opened
C3_Witness ==
    \E t \in threads :
        /\ Done(t, "open")
        /\ Len(call[t].capsule) = 44
        /\ call[t].how = "intact"
        /\ ret[t] = "NULL"
        /\ buf_written[t] = 0

\* C4: undifferentiated authentication failure.  When a capsule of at least
\* 44 bytes fails the AEAD verification (one bit of a sealed capsule was
\* flipped, or the secret presented is not the one it was sealed under), open
\* returns the one invalid-capsule error, the same value in either case, and
\* reports nothing written; recover returns ERR_OPEN (or a KDF fault).
C4_InvalidCapsule ==
    \A t \in threads :
        /\ (/\ Done(t, "open")
            /\ SecretGiven(t)
            /\ \/ call[t].how = "flip"
               \/ /\ call[t].how = "intact"
                  /\ call[t].user_secret # call[t].origin_secret)
              => /\ Failed(t, "EILSEQ", "Invalid capsule", 0)
                 /\ buf_written[t] = UNSET
        /\ (Done(t, "open") /\ "InvalidData" \in stderr[t])
              => /\ Failed(t, "EILSEQ", "Invalid capsule", 0)
                 /\ buf_written[t] = UNSET
        /\ (/\ Done(t, "recover")
            /\ \/ call[t].how = "flip"
               \/ /\ call[t].how = "intact"
                  /\ call[t].user_secret # call[t].origin_secret)
              => /\ ret[t] \in {"ERR_OPEN", "ERR_KDF"}
                 /\ buf[t] = <<>>

\* a capsule with a bit of its salt flipped was refused
C4_Witness ==
    \E t \in threads :
        /\ Done(t, "open")
        /\ call[t].how = "flip"
        /\ stored.full
        /\ SubSeq(call[t].capsule, 1, 16) # SubSeq(stored.capsule, 1, 16)
        /\ Failed(t, "EILSEQ", "Invalid capsule", 0)

\* the call has done no cryptographic work and written nothing
NothingDone(t) ==
    /\ aead_key[t] = NoKey
    /\ fault[t] = ""
    /\ buf_written[t] = UNSET
    /\ buf[t] = Zeros(Len(buf[t]))

\* the user secret is present and its length is 0 or at least 65
SecretBadLen(t) ==
    /\ ~call[t].user_secret_null
    /\ \/ Len(call[t].user_secret) = 0
       \/ Len(call[t].user_secret) >= 65

\* the argument checks that come before the user secret's pass
EarlierChecksPass(t) ==
    \/ call[t].op = "seal" /\ call[t].crypto_item_id_null
    \/ call[t].op = "open" /\ Len(call[t].capsule) >= 44

\* C5 as amended: secret-length policy.  In seal and open, unless an earlier
\* argument check rejects the call first (seal: a crypto item id is given;
\* open: the capsule is shorter than 44 bytes), a user secret that is present
\* with a length of 0 or of 65 or more is rejected with the
\* unsupported-secret-length error (EINVAL, argument 6) before any random
\* draw, key derivation or AEAD operation; an absent secret gets the
\* missing-secret error (EPERM), a different value, and neither is the
\* invalid-capsule error (EILSEQ); a secret of length 1 to 64 is never
\* rejected for its length.  Whichever check rejects a call, no cryptographic
\* work was done.
C5_SecretLengthPolicy ==
    \A t \in threads :
        /\ (call[t].op \in {"seal", "open"} /\ EarlierChecksPass(t)
               /\ SecretBadLen(t))
              => /\ pc[t] = "done"
                 /\ Failed(t, "EINVAL", "Unsupported user secret length", 6)
                 /\ NothingDone(t)
        /\ (call[t].op \in {"seal", "open"} /\ SecretBadLen(t))
              => /\ pc[t] = "done"
                 /\ ret[t] = "ERR"
                 /\ NothingDone(t)
        /\ (call[t].op \in {"seal", "open"} /\ EarlierChecksPass(t)
               /\ call[t].user_secret_null)
              => /\ pc[t] = "done"
                 /\ Failed(t, "EPERM", "Missing user secret", 1)
                 /\ NothingDone(t)
        /\ (call[t].op \in {"seal", "open"} /\ SecretGiven(t))
              => ~(pc[t] = "done" /\ ret[t] = "ERR"
                     /\ THREAD_LOCAL_ERR[t].error_type = "EINVAL"
                     /\ THREAD_LOCAL_ERR[t].info = 6)
        /\ (call[t].op \in {"seal", "open"} /\ EarlierChecksPass(t)
               /\ SecretGiven(t))
              => ~(pc[t] = "done" /\ ret[t] = "ERR" /\ NothingDone(t)
                     /\ stderr[t] = {})

\* open refused a 65-byte secret presented with a capsule that was sealed
C5_Witness ==
    \E t \in threads :
        /\ Done(t, "open")
        /\ call[t].how = "intact"
        /\ Len(call[t].user_secret) = 65
        /\ Failed(t, "EINVAL", "Unsupported user secret length", 6)

\* C5 as stated: every present secret of length 0 or >= 65 is rejected with
\* the unsupported-secret-length error
C5_AsStated ==
    \A t \in threads :
        (call[t].op \in {"seal", "open"} /\ SecretBadLen(t))
           => /\ pc[t] = "done"
              /\ Failed(t, "EINVAL", "Unsupported user secret length", 6)

\* the error kind of each fault of seal
FaultKind == [random |-> "random-generation fault",
              kdf    |-> "key-derivation fault",
              seal   |-> "sealing fault"]

\* C6 as stated: seal fault reporting.  When the random source, the key
\* derivation or the AEAD seal fails during seal, seal returns an error to its
\* caller, of a kind of its own for each of the three causes.
C6_SealFaultsReturned ==
    \A t \in threads :
        (call[t].op = "seal" /\ fault[t] # "")
           => /\ pc[t] = "done"
              /\ ret[t] = "ERR"
              /\ THREAD_LOCAL_ERR[t].description = FaultKind[fault[t]]
              /\ buf_written[t] = UNSET

\* the call ended with all of its output: the whole capsule, or the whole
\* payload
Complete(t) ==
    /\ ret[t] = "NULL"
    /\ \/ /\ call[t].op = "seal"
          /\ buf_written[t] = Len(call[t].key) + 44
          /\ WellFormed(Written(t), Len(call[t].key), call[t].user_secret,
                        call[t].key)
       \/ /\ call[t].op = "open"
          /\ buf_written[t] = Len(call[t].capsule) - 44
          /\ call[t].how = "intact" => Written(t) = call[t].origin_payload

\* C7 as stated: atomicity of output.  Every call to seal or open that has
\* ended either succeeded with a complete capsule or payload, or returned an
\* error with the written length unchanged and no byte of the output buffer
\* written.
C7_AtomicOutput ==
    \A t \in threads :
        (call[t].op \in {"seal", "open"} /\ pc[t] \in {"done", "aborted"})
           => /\ pc[t] = "done"
              /\ \/ Complete(t)
                 \/ /\ ret[t] = "ERR"
                    /\ buf_written[t] = UNSET
                    /\ buf[t] = Zeros(Len(buf[t]))

\* the number r - n, for usizes r and n that are less than two limbs apart
\* (2 * LimbBase otherwise), limb by limb from the top
RECURSIVE DiffLimbs(_, _, _, _)
DiffLimbs(r, n, i, d) ==
    IF i = 0 THEN d
    ELSE IF d > 1 \/ d < 0 - 1 THEN 2 * LimbBase
    ELSE DiffLimbs(r, n, i - 1, d * LimbBase + r[i] - n[i])

\* r = n + k, as numbers
IsSum(r, n, k) == DiffLimbs(r, n, USIZE_LIMBS, 0) = k

\* C8 as stated: size prediction.  For every input length n the size query
\* for "seal" returns n + 44 and the one for "open" returns n; a successful
\* seal writes exactly as many bytes as the query for its payload returned,
\* and a successful open no more than the query for its capsule returned.
C8_SizePrediction ==
    \A t \in threads :
        /\ (call[t].op = "buf_len" /\ pc[t] \in {"done", "aborted"}
               /\ call[t].fn_name = "seal")
              => /\ pc[t] = "done"
                 /\ IsSum(len_out[t], call[t].input_len, 44)
        /\ (call[t].op = "buf_len" /\ pc[t] \in {"done", "aborted"}
               /\ call[t].fn_name = "open")
              => /\ pc[t] = "done"
                 /\ len_out[t] = call[t].input_len
        /\ (Done(t, "seal") /\ ret[t] = "NULL")
              => buf_written[t] = Len(buf[t])
        /\ (Done(t, "open") /\ ret[t] = "NULL")
              => buf_written[t] + 44 = Len(buf[t])

\* the outcome of a finished seal or open that its own arguments determine
OwnOutcome(t) ==
    IF call[t].op = "open" /\ Len(call[t].capsule) < 44
    THEN /\ Failed(t, "EILSEQ", "Truncated capsule", 0)
         /\ buf_written[t] = UNSET
    ELSE IF call[t].user_secret_null
    THEN /\ Failed(t, "EPERM", "Missing user secret", 1)
         /\ buf_written[t] = UNSET
    ELSE IF call[t].op = "seal"
    THEN /\ ret[t] = "NULL"
         /\ WellFormed(Written(t), Len(call[t].key), call[t].user_secret,
                       call[t].key)
    ELSE IF call[t].how = "intact"
            /\ call[t].user_secret = call[t].origin_secret
    THEN /\ ret[t] = "NULL"
         /\ Written(t) = call[t].origin_payload
    ELSE /\ Failed(t, "EILSEQ", "Invalid capsule", 0)
         /\ buf_written[t] = UNSET

\* every finished seal or open has the outcome of its own arguments
IsolatedResults ==
    \A t \in threads :
        (pc[t] = "done" /\ call[t].op \in {"seal", "open"}) => OwnOutcome(t)

\* a step that is not a step of thread t's call leaves everything of thread t
\* as it was, its error object included; a step of a call leaves the log
\* level as it was
IsolatedSteps ==
    /\ \A t \in threads :
          pc'[t] = pc[t]
             => /\ THREAD_LOCAL_ERR'[t] = THREAD_LOCAL_ERR[t]
                /\ ret'[t] = ret[t]
                /\ buf'[t] = buf[t]
                /\ buf_written'[t] = buf_written[t]
                /\ aead_key'[t] = aead_key[t]
                /\ call'[t] = call[t]
    /\ (\E t \in threads : pc'[t] # pc[t]) => LOG_LEVEL' = LOG_LEVEL
    /\ \A t \in threads :
          (THREAD_LOCAL_ERR'[t] # THREAD_LOCAL_ERR[t])
             => /\ pc[t] = "idle" \/ pc[t] = "open_aead"
                /\ pc'[t] = "done"
                /\ ret'[t] = "ERR"

\* C9: thread isolation.  With calls of two threads interleaved step by step
\* in every order, each finished seal or open has the result and the error
\* value that its own arguments determine; no step of one thread's call
\* changes the error object, the buffers or the result of another thread;
\* and no step of a call writes the process-wide log level.
C9_ThreadIsolation == []IsolatedResults /\ [][IsolatedSteps]_vars

\* two threads hold different errors, each from its own call, at once
C9_Witness ==
    /\ threads = {1, 2}
    /\ Done(1, "open") /\ Failed(1, "EILSEQ", "Invalid capsule", 0)
    /\ Done(2, "open") /\ Failed(2, "EPERM", "Missing user secret", 1)

\* the construction this plugin pairs: the KDF and the AEAD in use
SupportedItem == "Blake2b-ChachaPolyIetf"

SealParams == <<"buf", "buf_written", "key", "key_len", "crypto_item_id",
                "_crypto_item_id_len", "user_secret", "user_secret_len">>
OpenParams == <<"buf", "buf_written", "capsule", "capsule_len", "user_secret",
                "user_secret_len">>

\* the parameter list of the function a call entered
ParamsOf(op) == IF op = "seal" THEN SealParams ELSE OpenParams

\* the zero-based position of a parameter in a parameter list
PositionOf(params, name) ==
    (CHOOSE i \in 1..Len(params) : params[i] = name) - 1

\* the argument an EINVAL error rejects, by the error's description
RejectedArgument(e) ==
    IF e.description = "Invalid crypto item" THEN "crypto_item_id"
    ELSE "user_secret"

\* C11 as stated: invalid-argument index.  Every EINVAL error that seal or
\* open returns carries as its info the zero-based position, in the parameter
\* list of the function that returned it, of the argument it rejected: the
\* crypto item id for an invalid crypto item, the user secret for an
\* unsupported secret length.
C11_ArgumentIndex ==
    \A t \in threads :
        (/\ pc[t] = "done"
         /\ call[t].op \in {"seal", "open"}
         /\ ret[t] = "ERR"
         /\ THREAD_LOCAL_ERR[t].error_type = "EINVAL")
           => THREAD_LOCAL_ERR[t].info =
                 PositionOf(ParamsOf(call[t].op),
                            RejectedArgument(THREAD_LOCAL_ERR[t]))

=============================================================================
